---- MODULE Spec2Model ----
(***************************************************************************)
(* Model of src/src/12-panchayat-election.js: the election session built   *)
(* by createElection (registerVoter, castVote, getResults, getWinner),     *)
(* the pure tally update tallyPure and the recursive region counter        *)
(* countVotesInRegions.                                                    *)
(***************************************************************************)
EXTENDS Integers, Sequences, FiniteSets, TLC

VARIABLES
    candidateList,  \* createElection: the session's copy of the candidates
    tally,          \* createElection: own properties of the tally object
    registered,     \* createElection: Set of registered voter ids
    voted,          \* createElection: Set of voter ids that have voted
    lastCall,       \* the most recent call on the session and its arguments
    ret,            \* what that call returned
    callbacks,      \* the callback invocations that call made, in order
    recorded,       \* per voter id, how often the record-vote lines ran
    tp,             \* tallyPure called directly: input, argument, result
    rg,             \* countVotesInRegions: the structure, the root, the result
    vd,             \* createVoteValidator: the host's rules, the validators
    host,           \* the array the host passed to createElection
    stack           \* the castVote calls whose onSuccess is running

vars == <<candidateList, tally, registered, voted, lastCall, ret, callbacks,
          recorded, tp, rg, vd, host, stack>>

(***************************************************************************)
(* JavaScript values.  A primitive is a record with a tag t, a number n    *)
(* and a string s; an object adds nothing here, its properties are kept    *)
(* beside it.                                                              *)
(***************************************************************************)
Undefined == [t |-> "undefined", n |-> 0, s |-> ""]
Null == [t |-> "null", n |-> 0, s |-> ""]
NaN == [t |-> "nan", n |-> 0, s |-> ""]
Num(k) == [t |-> "number", n |-> k, s |-> ""]
Str(x) == [t |-> "string", n |-> 0, s |-> x]
Fn(name) == [t |-> "function", n |-> 0, s |-> name]
ObjectValue == [t |-> "object", n |-> 0, s |-> ""]
\* a reference to the object at address a of a heap
Ref(a) == [t |-> "object", n |-> a, s |-> ""]

\* typeof v
Typeof(v) ==
    CASE v.t = "null" -> "object"
      [] v.t = "nan" -> "number"
      [] OTHER -> v.t

\* ToBoolean(v): what !v, v || w and v ? a : b test
Truthy(v) ==
    CASE v.t = "undefined" -> FALSE
      [] v.t = "null" -> FALSE
      [] v.t = "nan" -> FALSE
      [] v.t = "number" -> v.n # 0
      [] v.t = "string" -> v.s # ""
      [] v.t = "boolean" -> v.n = 1
      [] OTHER -> TRUE

\* v < k for a number k: false when v is NaN
LessThan(v, k) == v.t = "number" /\ v.n < k

\* The properties every plain object inherits from Object.prototype.
ObjectPrototypeKeys == {"constructor", "toString"}

\* An object with no own properties: {}
EmptyProps == [k \in {} |-> Undefined]

\* Object.prototype[key]: constructor is the function Object
ObjectPrototype(key) == IF key = "constructor" THEN Fn("Object") ELSE Fn(key)

\* obj[key]: the own property, else the inherited one, else undefined
GetProp(props, key) ==
    IF key \in DOMAIN props THEN props[key]
    ELSE IF key \in ObjectPrototypeKeys THEN ObjectPrototype(key)
    ELSE Undefined

\* v + 1: a number is incremented, a function is turned into its source
\* text and "1" is appended
PlusOne(v) ==
    CASE v.t = "number" -> Num(v.n + 1)
      [] v.t = "nan" -> NaN
      [] v.t = "function" -> Str("function " \o v.s \o "() { [native code] }1")
      [] v.t = "string" -> Str(v.s \o "1")
      [] OTHER -> NaN

(***************************************************************************)
(* tallyPure(currentTally, candidateId), lines 175-185.  currentTally is   *)
(* [val |-> a JavaScript value, props |-> its own properties].             *)
(***************************************************************************)
TallyBase(currentTally) ==
    IF Truthy(currentTally.val) /\ Typeof(currentTally.val) = "object"
    THEN currentTally.props
    ELSE EmptyProps

CurrentCount(base, candidateId) ==
    IF Truthy(GetProp(base, candidateId)) THEN GetProp(base, candidateId)
    ELSE Num(0)

tallyPureNoIncrement(currentTally, candidateId) ==
    LET base == TallyBase(currentTally)
    IN  [k \in DOMAIN base \cup {candidateId} |->
            IF k = candidateId THEN CurrentCount(base, candidateId)
            ELSE base[k]]

tallyPure(currentTally, candidateId) ==
    LET base == TallyBase(currentTally)
        currentCount == CurrentCount(base, candidateId)
    IN  [k \in DOMAIN base \cup {candidateId} |->
            IF k = candidateId THEN PlusOne(currentCount) ELSE base[k]]

\* A plain object with the given own properties.
Obj(props) == [val |-> ObjectValue, props |-> props]

(***************************************************************************)
(* createElection(candidates), lines 66-79.                                *)
(***************************************************************************)
MaxCandidates == 3

CandidatePool ==
    { [id |-> "C1", name |-> "Sarpanch Ram", party |-> "Janata"],
      [id |-> "C2", name |-> "Pradhan Sita", party |-> "Lok"],
      [id |-> "C1", name |-> "Ram II", party |-> "Lok"],
      [id |-> "constructor", name |-> "Mukhiya", party |-> "Gram"] }

CandidateIds == {c.id : c \in CandidatePool}

\* A candidate id no candidate of the pool has.
UnknownCandidateId == "C9"

VoterIds == {"V1", "V2"}

\* The candidate arrays a session is created with: up to MaxCandidates
\* records of the pool, none of them twice (two of them share the id "C1").
CandidateLists ==
    UNION {{cl \in [1..n -> CandidatePool] :
                \A i, j \in 1..n : cl[i] = cl[j] => i = j} :
           n \in 0..MaxCandidates}

InitialTallyEmpty(cl) == EmptyProps

\* candidateList.forEach((c) => { tally[c.id] = 0; })
InitialTally(cl) == [k \in {cl[i].id : i \in DOMAIN cl} |-> Num(0)]

\* candidateList.find((c) => c.id === id): the index found, 0 for undefined
findCandidate(cl, id) ==
    IF \E i \in DOMAIN cl : cl[i].id = id
    THEN CHOOSE i \in DOMAIN cl :
            cl[i].id = id /\ \A j \in 1..(i - 1) : cl[j].id # id
    ELSE 0

NoCall == [op |-> "none", voter |-> [kind |-> "none", id |-> Undefined, age |-> Undefined],
           voterId |-> "", candidateId |-> "", onSuccess |-> FALSE,
           onError |-> FALSE, sortFn |-> "undefined"]

NoReturn == [kind |-> "none", b |-> FALSE, val |-> Undefined, rows |-> <<>>]

\* tallyPure and countVotesInRegions not called
IdleTp ==
    [phase |-> "idle", currentTally |-> [val |-> Undefined, props |-> EmptyProps],
     candidateId |-> "", after |-> [val |-> Undefined, props |-> EmptyProps],
     result |-> EmptyProps]

IdleRg ==
    [phase |-> "idle", heap |-> <<>>, regionTree |-> Undefined,
     result |-> [error |-> "", n |-> 0]]

\* createVoteValidator not called: the host's rules object, the arrays it
\* owns, the validators created and the last validation
NoValidation ==
    [validator |-> 0, voter |-> [val |-> Undefined, props |-> EmptyProps],
     result |-> [valid |-> FALSE, hasReason |-> FALSE, reason |-> ""]]

IdleVd ==
    [phase |-> "idle", rules |-> [minAge |-> Undefined, requiredFields |-> 0],
     arrays |-> <<>>, validators |-> <<>>, last |-> NoValidation]

\* no host array followed: the array the host passed to createElection, its
\* elements at that time, and the writes the host has made since
IdleHost ==
    [candidates |-> <<>>, original |-> <<>>, arrayWrites |-> 0, rowWrites |-> 0]

InitElection ==
    /\ candidateList \in CandidateLists
    /\ tally = InitialTally(candidateList)
    /\ registered = {}
    /\ voted = {}
    /\ lastCall = NoCall
    /\ ret = NoReturn
    /\ callbacks = <<>>
    /\ recorded = [v \in VoterIds |-> 0]
    /\ tp = IdleTp
    /\ rg = IdleRg
    /\ vd = IdleVd
    /\ host = IdleHost
    /\ stack = <<>>

(***************************************************************************)
(* registerVoter(voter), lines 82-95.                                      *)
(***************************************************************************)
MinAge == 18

Ages == {Num(17), Num(18), NaN, Str("25"), Undefined}

VoterArgs ==
    { [kind |-> "null", id |-> Undefined, age |-> Undefined],
      [kind |-> "string", id |-> Undefined, age |-> Undefined] }
    \cup [kind : {"object"},
          id : {Str(v) : v \in VoterIds} \cup {Num(7)},
          age : Ages]

\* !voter
VoterFalsy(voter) == voter.kind = "null"

\* the condition of the if of lines 83-89
RegisterRejects(reg, voter) ==
    \/ VoterFalsy(voter)
    \/ Typeof(voter.id) # "string"
    \/ Typeof(voter.age) # "number"
    \/ LessThan(voter.age, MinAge)
    \/ voter.id.s \in reg

\* registerVoter(voter)
RegisterVoterCall(voter) ==
    /\ lastCall' = [NoCall EXCEPT !.op = "registerVoter", !.voter = voter]
    /\ IF RegisterRejects(registered, voter)
       THEN /\ ret' = [NoReturn EXCEPT !.kind = "boolean", !.b = FALSE]
            /\ registered' = registered
       ELSE /\ registered' = registered \cup {voter.id.s}
            /\ ret' = [NoReturn EXCEPT !.kind = "boolean", !.b = TRUE]
    /\ callbacks' = <<>>
    /\ UNCHANGED <<candidateList, tally, voted, recorded, tp, rg, vd, host, stack>>

RegisterVoter == \E voter \in VoterArgs : RegisterVoterCall(voter)

(***************************************************************************)
(* castVote(voterId, candidateId, onSuccess, onError), lines 97-115.       *)
(* The callbacks are those of the example of line 63: r => "voted!" and    *)
(* e => "error: " + e; either may be left out.                             *)
(***************************************************************************)
IsRegisteredAlways(reg, voterId) == TRUE

\* registered.has(voterId)
IsRegistered(reg, voterId) == voterId \in reg

HasVotedNever(vt, voterId) == FALSE

\* voted.has(voterId)
HasVoted(vt, voterId) == voterId \in vt

\* findCandidate(candidateId) is not undefined
CandidateExists(cl, candidateId) == findCandidate(cl, candidateId) # 0

CastVoteErrorCandidateFirst(reg, vt, cl, voterId, candidateId) ==
    IF ~CandidateExists(cl, candidateId) THEN "Candidate not found"
    ELSE IF ~IsRegistered(reg, voterId) THEN "Voter not registered"
    ELSE IF HasVoted(vt, voterId) THEN "Already voted"
    ELSE ""

\* the three checks in the order of the code: the message of the error
\* branch taken, "" when the vote is recorded
CastVoteError(reg, vt, cl, voterId, candidateId) ==
    IF ~IsRegistered(reg, voterId) THEN "Voter not registered"
    ELSE IF HasVoted(vt, voterId) THEN "Already voted"
    ELSE IF ~CandidateExists(cl, candidateId) THEN "Candidate not found"
    ELSE ""

VotedAfterError(vt, voterId, err) == vt \cup {voterId}

\* voted after the call: voted.add(voterId) runs on the success path only
VotedAfter(vt, voterId, err) == IF err = "" THEN vt \cup {voterId} ELSE vt

TallyAfterFromEmpty(tl, candidateId, err) ==
    IF err = "" THEN tallyPure(Obj(EmptyProps), candidateId) ELSE tl

\* tally after the call: tally = tallyPure(tally, candidateId) on the
\* success path only
TallyAfter(tl, candidateId, err) ==
    IF err = "" THEN tallyPure(Obj(tl), candidateId) ELSE tl

OnErrorCall(msg) ==
    [fn |-> "onError", msg |-> msg, voterId |-> "", candidateId |-> ""]

OnSuccessCall(voterId, candidateId) ==
    [fn |-> "onSuccess", msg |-> "", voterId |-> voterId,
     candidateId |-> candidateId]

\* what the callback of the example returns for the invocation c
CallbackReturn(c) ==
    IF c.fn = "onSuccess" THEN Str("voted!") ELSE Str("error: " \o c.msg)

OptionalCallUnguarded(supplied, call) ==
    IF supplied
    THEN [NoReturn EXCEPT !.kind = "value", !.val = CallbackReturn(call)]
    ELSE [NoReturn EXCEPT !.kind = "throw", !.val = Str("TypeError")]

\* return onError?.(msg) / return onSuccess?.({...}): the callback's return
\* value, undefined when the callback is undefined
OptionalCall(supplied, call) ==
    [NoReturn EXCEPT !.kind = "value",
       !.val = IF supplied THEN CallbackReturn(call) ELSE Undefined]

\* the callbacks a call passes: both, or neither
CallbackArgs ==
    { [onSuccess |-> TRUE, onError |-> TRUE],
      [onSuccess |-> FALSE, onError |-> FALSE] }

CastVote ==
    \E voterId \in VoterIds,
       candidateId \in CandidateIds \cup {UnknownCandidateId},
       cb \in CallbackArgs :
        LET onSuccess == cb.onSuccess
            onError == cb.onError
            err == CastVoteError(registered, voted, candidateList, voterId,
                                 candidateId)
            call == IF err = "" THEN OnSuccessCall(voterId, candidateId)
                    ELSE OnErrorCall(err)
            supplied == IF err = "" THEN onSuccess ELSE onError
        IN  /\ lastCall' = [NoCall EXCEPT !.op = "castVote",
                              !.voterId = voterId,
                              !.candidateId = candidateId,
                              !.onSuccess = onSuccess, !.onError = onError]
            /\ tally' = TallyAfter(tally, candidateId, err)
            /\ voted' = VotedAfter(voted, voterId, err)
            /\ recorded' = IF err = ""
                           THEN [recorded EXCEPT ![voterId] = @ + 1]
                           ELSE recorded
            /\ callbacks' = IF supplied THEN <<call>> ELSE <<>>
            /\ ret' = OptionalCall(supplied, call)
            /\ UNCHANGED <<candidateList, registered, tp, rg, vd, host, stack>>

(***************************************************************************)
(* getResults(sortFn), lines 117-129.                                      *)
(***************************************************************************)
SortFnArgs == {"undefined", "string", "ascending", "keep"}

\* typeof sortFn === "function"
IsFunction(sortFn) == sortFn \in {"ascending", "keep"}

\* x - y on numbers
Minus(x, y) ==
    IF x.t = "number" /\ y.t = "number" THEN Num(x.n - y.n) ELSE NaN

\* votes: tally[c.id] || 0
VotesOf(tl, c) ==
    IF Truthy(GetProp(tl, c.id)) THEN GetProp(tl, c.id) ELSE Num(0)

\* candidateList.map((c) => ({ id, name, party, votes }))
ResultRows(cl, tl) ==
    [i \in DOMAIN cl |->
        [id |-> cl[i].id, name |-> cl[i].name, party |-> cl[i].party,
         votes |-> VotesOf(tl, cl[i])]]

DefaultComparatorAscending(a, b) == Minus(a.votes, b.votes)

\* (a, b) => b.votes - a.votes
DefaultComparator(a, b) == Minus(b.votes, a.votes)

\* the comparator getResults sorts with; the callers' comparators are
\* (a, b) => a.votes - b.votes and () => 0
Comparator(sortFn, a, b) ==
    IF IsFunction(sortFn)
    THEN IF sortFn = "ascending" THEN Minus(a.votes, b.votes) ELSE Num(0)
    ELSE DefaultComparator(a, b)

\* Array.prototype.sort reads a comparator result: a negative number puts
\* a first, a positive one b, zero and NaN leave the two as they are
SortOrder(v) == IF v.t = "number" THEN v.n ELSE 0

RECURSIVE InsertRow(_, _, _)
InsertRow(row, sorted, sortFn) ==
    IF sorted = <<>> THEN <<row>>
    ELSE IF SortOrder(Comparator(sortFn, row, Head(sorted))) < 0
         THEN <<row>> \o sorted
         ELSE <<Head(sorted)>> \o InsertRow(row, Tail(sorted), sortFn)

\* [...results].sort(comparator): the sort is stable
RECURSIVE SortRows(_, _)
SortRows(rows, sortFn) ==
    IF rows = <<>> THEN <<>>
    ELSE InsertRow(rows[Len(rows)],
                   SortRows(SubSeq(rows, 1, Len(rows) - 1), sortFn), sortFn)

getResults(cl, tl, sortFn) == SortRows(ResultRows(cl, tl), sortFn)

GetResults ==
    \E sortFn \in SortFnArgs :
        /\ lastCall' = [NoCall EXCEPT !.op = "getResults", !.sortFn = sortFn]
        /\ ret' = [NoReturn EXCEPT !.kind = "rows",
                     !.rows = getResults(candidateList, tally, sortFn)]
        /\ callbacks' = <<>>
        /\ UNCHANGED <<candidateList, tally, registered, voted, recorded,
                       tp, rg, vd, host, stack>>

(***************************************************************************)
(* getWinner(), lines 131-135: <<>> for null, else <<results[0]>>.         *)
(***************************************************************************)
getWinnerLast(cl, tl) ==
    LET results == getResults(cl, tl, "undefined")
    IN  IF Len(results) = 0 \/ results[1].votes = Num(0) THEN <<>>
        ELSE <<results[Len(results)]>>

getWinner(cl, tl) ==
    LET results == getResults(cl, tl, "undefined")
    IN  IF Len(results) = 0 \/ results[1].votes = Num(0) THEN <<>>
        ELSE <<results[1]>>

GetWinner ==
    /\ lastCall' = [NoCall EXCEPT !.op = "getWinner"]
    /\ ret' = [NoReturn EXCEPT
                 !.kind = IF getWinner(candidateList, tally) = <<>>
                          THEN "null" ELSE "row",
                 !.rows = getWinner(candidateList, tally)]
    /\ callbacks' = <<>>
    /\ UNCHANGED <<candidateList, tally, registered, voted, recorded, tp, rg, vd, host, stack>>

Next == RegisterVoter \/ CastVote \/ GetResults \/ GetWinner

Spec == InitElection /\ [][Next]_vars

(***************************************************************************)
(* Properties of the election session.                                     *)
(***************************************************************************)
\* the sum of the counts of a tally
RECURSIVE SumOver(_, _)
SumOver(tl, keys) ==
    IF keys = {} THEN 0
    ELSE LET k == CHOOSE x \in keys : TRUE
         IN  tl[k].n + SumOver(tl, keys \ {k})

TallySum(tl) == SumOver(tl, DOMAIN tl)

\* the callback invocations a castVote call is to make, given what the
\* caller supplied
Invoked(call, cl) ==
    IF (call.fn = "onSuccess" /\ cl.onSuccess) \/ (call.fn = "onError" /\ cl.onError)
    THEN <<call>> ELSE <<>>

IsCandidateId(id) == \E i \in DOMAIN candidateList : candidateList[i].id = id

\* C1: at most one vote per voter: the vote of a voter id is recorded at
\* most once, and a castVote by a voter id that has already voted invokes
\* onError("Already voted") (when the caller supplied onError) and leaves
\* the tally as it was, whatever the candidate id.
C1_AtMostOneVote ==
    [][ /\ \A v \in VoterIds : recorded'[v] <= 1
        /\ (lastCall'.op = "castVote" /\ lastCall'.voterId \in voted)
             => /\ callbacks' = Invoked(OnErrorCall("Already voted"), lastCall')
                /\ tally' = tally
                /\ recorded' = recorded ]_vars

C1_Witness ==
    /\ lastCall.op = "castVote"
    /\ lastCall.voterId \in voted
    /\ callbacks = <<OnErrorCall("Already voted")>>
    /\ lastCall.candidateId \in DOMAIN tally
    /\ tally[lastCall.candidateId] = Num(0)

ExpectedCall(v, c) ==
    IF v \notin registered THEN OnErrorCall("Voter not registered")
    ELSE IF v \in voted THEN OnErrorCall("Already voted")
    ELSE IF ~IsCandidateId(c) THEN OnErrorCall("Candidate not found")
    ELSE OnSuccessCall(v, c)

\* C3: castVote checks registered, then already voted, then candidate
\* exists, and invokes one callback once: onError with the message of the
\* first failing check, or onSuccess({voterId, candidateId}); a callback
\* the caller left out is not invoked, and never the other one.
C3_CheckOrder ==
    [][ lastCall'.op = "castVote" =>
          /\ callbacks' = Invoked(ExpectedCall(lastCall'.voterId,
                                               lastCall'.candidateId), lastCall')
          /\ Len(callbacks') <= 1
          /\ (lastCall'.voterId \notin registered /\ lastCall'.onError)
                => callbacks' = <<OnErrorCall("Voter not registered")>>
          /\ (lastCall'.voterId \in voted /\ lastCall'.onError)
                => callbacks' = <<OnErrorCall("Already voted")>> ]_vars

C3_Witness ==
    /\ lastCall.op = "castVote"
    /\ lastCall.voterId \in voted
    /\ lastCall.candidateId = UnknownCandidateId
    /\ callbacks = <<OnErrorCall("Already voted")>>

\* C4: a castVote call that takes an error branch leaves tally, voted and
\* registered as they were; a registered voter whose call failed with
\* "Candidate not found" has not voted, and a castVote by a registered
\* voter who has not voted for an existing candidate records the vote.
C4_ErrorLeavesState ==
    [][ lastCall'.op = "castVote" =>
          LET v == lastCall'.voterId
              c == lastCall'.candidateId
          IN  /\ (v \notin registered \/ v \in voted \/ ~IsCandidateId(c))
                   => /\ tally' = tally
                      /\ voted' = voted
                      /\ registered' = registered
                      /\ \A call \in {callbacks'[i] : i \in DOMAIN callbacks'} :
                            call.fn = "onError"
              /\ (v \in registered /\ v \notin voted /\ IsCandidateId(c))
                   => /\ voted' = voted \cup {v}
                      /\ callbacks' = Invoked(OnSuccessCall(v, c), lastCall') ]_vars

C4_Witness ==
    /\ lastCall.op = "castVote"
    /\ callbacks = <<OnErrorCall("Candidate not found")>>
    /\ lastCall.voterId \in registered \ voted
    /\ voted # {}

\* age >= 18
AtLeastMinAge(age) == age.t = "number" /\ age.n >= MinAge

\* C5: registerVoter returns true and adds voter.id only if voter is a
\* non-null record, id is a string, age is a number, age >= 18 and id is
\* not registered yet; any violation returns false and changes nothing.
C5_RegisterOnlyIfValid ==
    [][ lastCall'.op = "registerVoter" =>
          LET voter == lastCall'.voter
              valid == /\ voter.kind = "object"
                       /\ Typeof(voter.id) = "string"
                       /\ Typeof(voter.age) = "number"
                       /\ AtLeastMinAge(voter.age)
                       /\ voter.id.s \notin registered
          IN  /\ ret'.b = valid
              /\ registered' = IF valid THEN registered \cup {voter.id.s}
                               ELSE registered
              /\ UNCHANGED <<tally, voted>> ]_vars

Max(S) == CHOOSE x \in S : \A y \in S : y <= x

\* the count of the candidate at index i of the candidate list
CountAt(i) == tally[candidateList[i].id].n

RowAt(i) ==
    [id |-> candidateList[i].id, name |-> candidateList[i].name,
     party |-> candidateList[i].party, votes |-> Num(CountAt(i))]

Before(sortFn, a, b) ==
    CASE sortFn = "ascending" -> a.votes.n < b.votes.n
      [] sortFn = "keep" -> FALSE
      [] OTHER -> a.votes.n > b.votes.n

\* the place of the row of candidate i in a stable ordering
Place(sortFn, i) ==
    1 + Cardinality({j \in DOMAIN candidateList :
                        Before(sortFn, RowAt(j), RowAt(i))})
      + Cardinality({j \in 1..(i - 1) :
                        ~Before(sortFn, RowAt(i), RowAt(j))
                        /\ ~Before(sortFn, RowAt(j), RowAt(i))})

C14_VotedAreRegistered == voted \subseteq registered

C14_Witness ==
    /\ voted # {}
    /\ lastCall.op = "castVote"
    /\ lastCall.voterId \notin registered
    /\ callbacks = <<OnErrorCall("Voter not registered")>>

\* the call records a vote: all three checks pass
Succeeds(v, c) == v \in registered /\ v \notin voted /\ IsCandidateId(c)

\* C15: castVote returns what the callback it invoked returned; with the
\* callback of the branch taken left out it raises nothing and returns
\* undefined, and the session changes as with the callback: the vote is
\* recorded on the success branch, nothing changes on an error branch.
C15_ReturnAndAbsentCallback ==
    [][ lastCall'.op = "castVote" =>
          LET v == lastCall'.voterId
              c == lastCall'.candidateId
          IN  /\ ret'.kind = "value"
              /\ ret'.val = IF callbacks' # <<>>
                            THEN CallbackReturn(callbacks'[1]) ELSE Undefined
              /\ (Succeeds(v, c) /\ ~lastCall'.onSuccess) =>
                    /\ ret'.val = Undefined
                    /\ callbacks' = <<>>
                    /\ voted' = voted \cup {v}
                    /\ tally'[c] = Num(tally[c].n + 1)
              /\ (~Succeeds(v, c) /\ ~lastCall'.onError) =>
                    /\ ret'.val = Undefined
                    /\ callbacks' = <<>>
                    /\ UNCHANGED <<tally, voted, registered>> ]_vars

C15_Witness ==
    /\ lastCall.op = "castVote"
    /\ ~lastCall.onSuccess
    /\ callbacks = <<>>
    /\ ret.val = Undefined
    /\ voted = {lastCall.voterId}
    /\ tally[lastCall.candidateId] = Num(1)

MaxCount == 2

TallyKeys == {"a", "b", "constructor"}

\* the tallies a host passes: null, undefined, a number, a string, and
\* objects with counts under some of the keys
TallyArgs ==
    {[val |-> v, props |-> EmptyProps] : v \in {Null, Undefined, Num(5), Str("ab")}}
    \cup {Obj(props) : props \in
            UNION {[keys -> {Num(k) : k \in 0..MaxCount}] : keys \in SUBSET TallyKeys}}

CandidateIdArgs == TallyKeys \cup {"x"}

\* the caller's object after the call: no statement of tallyPure writes
\* to currentTally or to base
TallyInputAfter(currentTally, candidateId) == currentTally

InitTally ==
    /\ candidateList = <<>>
    /\ tally = EmptyProps
    /\ registered = {}
    /\ voted = {}
    /\ lastCall = NoCall
    /\ ret = NoReturn
    /\ callbacks = <<>>
    /\ recorded = [v \in VoterIds |-> 0]
    /\ \E arg \in TallyArgs : tp = [IdleTp EXCEPT !.phase = "ready",
                                      !.currentTally = arg, !.after = arg]
    /\ rg = IdleRg
    /\ vd = IdleVd
    /\ host = IdleHost
    /\ stack = <<>>

TallyPureCall ==
    /\ tp.phase = "ready"
    /\ \E candidateId \in CandidateIdArgs :
          tp' = [tp EXCEPT !.phase = "done",
                   !.candidateId = candidateId,
                   !.result = tallyPure(tp.currentTally, candidateId),
                   !.after = TallyInputAfter(tp.currentTally, candidateId)]
    /\ UNCHANGED <<candidateList, tally, registered, voted, lastCall, ret,
                   callbacks, recorded, rg, vd, host, stack>>

NextTally == TallyPureCall

SpecTally == InitTally /\ [][NextTally]_vars

\* the mapping a tally argument stands for: its entries, none for a null
\* or non-object argument
MappingOf(arg) == IF arg.val = ObjectValue THEN arg.props ELSE EmptyProps

\* C8: tallyPure returns a mapping with every entry of currentTally
\* unchanged except candidateId, which is (its count, 0 if absent) + 1; a
\* null or non-object currentTally counts as the empty mapping; the input
\* has the same keys and values after the call.
C8_TallyPure ==
    tp.phase = "done" =>
        LET m == MappingOf(tp.currentTally)
            c == tp.candidateId
        IN  /\ DOMAIN tp.result = DOMAIN m \cup {c}
            /\ \A k \in DOMAIN m \ {c} : tp.result[k] = m[k]
            /\ tp.result[c] = Num((IF c \in DOMAIN m THEN m[c].n ELSE 0) + 1)
            /\ tp.after = tp.currentTally

(***************************************************************************)
(* countVotesInRegions(regionTree), lines 161-173.  The regions are        *)
(* objects on a heap: heap[a] is the object at address a, with its votes   *)
(* property and its subRegions property (an array of values, a value that  *)
(* is not an array, or no property).                                       *)
(***************************************************************************)
Addr == {1, 2, 3}

MaxVotes == 2

\* the frames the call stack holds before the engine raises RangeError
MaxStack == 5

VotesValues == {Num(k) : k \in 1..MaxVotes} \cup {Str("bad"), Undefined}

SubRegionsKinds == {"array", "string", "undefined"}

\* the object at address a of the structure in which parent[c] = a makes
\* c an element of a's subRegions (in the order of the addresses), with a
\* null before and a number after them when junk is set
RegionObject(a, parent, votes, kind, junk) ==
    LET kids == {c \in Addr : parent[c] = a}
        RECURSIVE Refs(_)
        Refs(S) == IF S = {} THEN <<>>
                   ELSE LET c == CHOOSE x \in S : \A y \in S : x <= y
                        IN  <<Ref(c)>> \o Refs(S \ {c})
        items == IF junk THEN <<Null>> \o Refs(kids) \o <<Num(7)>>
                 ELSE Refs(kids)
    IN  [votes |-> votes[a],
         subRegions |-> [kind |-> kind[a],
                         items |-> IF kind[a] = "array" THEN items ELSE <<>>]]

\* the addresses among the elements of a's subRegions array
SubRegionAddrs(heap, a) ==
    {heap[a].subRegions.items[i].n : i \in
        {j \in DOMAIN heap[a].subRegions.items :
            heap[a].subRegions.items[j].t = "object"}}

RECURSIVE Closure(_, _)
Closure(heap, S) ==
    LET T == S \cup UNION {SubRegionAddrs(heap, a) : a \in S}
    IN  IF T = S THEN S ELSE Closure(heap, T)

\* the addresses reachable from the value v through subRegions
Reachable(heap, v) == IF v.t = "object" THEN Closure(heap, {v.n}) ELSE {}

\* a is reachable from its own subRegions
OnCycle(heap, a) == a \in Closure(heap, SubRegionAddrs(heap, a)) /\ SubRegionAddrs(heap, a) # {}

RegionArgs == {Ref(1), Null, Undefined, Num(7), Str("R")}

InitRegion ==
    /\ candidateList = <<>>
    /\ tally = EmptyProps
    /\ registered = {}
    /\ voted = {}
    /\ lastCall = NoCall
    /\ ret = NoReturn
    /\ callbacks = <<>>
    /\ recorded = [v \in VoterIds |-> 0]
    /\ tp = IdleTp
    /\ vd = IdleVd
    /\ host = IdleHost
    /\ stack = <<>>
    /\ \E parent \in [Addr -> Addr \cup {0}], votes \in [Addr -> VotesValues],
          kind \in [Addr -> SubRegionsKinds], junk \in BOOLEAN,
          regionTree \in RegionArgs :
          LET heap == [a \in Addr |-> RegionObject(a, parent, votes, kind, junk)]
              live == Reachable(heap, regionTree)
          IN  \* what the call cannot reach is left out of the enumeration
              /\ \A a \in Addr \ live :
                    /\ votes[a] = Undefined
                    /\ kind[a] = "undefined"
                    /\ parent[a] = 0
              /\ rg = [IdleRg EXCEPT !.phase = "ready", !.heap = heap,
                         !.regionTree = regionTree]

\* the result of a call: a number, or the error it raised
Returned(k) == [error |-> "", n |-> k]
Raised(e) == [error |-> e, n |-> 0]

IsRegionNoNullCheck(regionTree) == Typeof(regionTree) = "object"

\* line 162 does not return 0: regionTree && typeof regionTree === "object"
IsRegion(regionTree) == Truthy(regionTree) /\ Typeof(regionTree) = "object"

\* ownVotes: typeof regionTree.votes === "number" ? regionTree.votes : 0
OwnVotes(votes) == IF Typeof(votes) = "number" THEN votes.n ELSE 0

\* subs: Array.isArray(regionTree.subRegions) ? regionTree.subRegions : []
Subs(subRegions) == IF subRegions.kind = "array" THEN subRegions.items ELSE <<>>

RECURSIVE countVotesShallow(_, _, _)
countVotesShallow(heap, regionTree, depth) ==
    IF ~IsRegion(regionTree) THEN Returned(0)
    ELSE LET region == heap[regionTree.n]
             subs == Subs(region.subRegions)
             RECURSIVE Own(_)
             Own(i) == IF i = 0 THEN 0
                       ELSE Own(i - 1)
                            + IF IsRegion(subs[i])
                              THEN OwnVotes(heap[subs[i].n].votes) ELSE 0
         IN  Returned(OwnVotes(region.votes) + Own(Len(subs)))

\* countVotesInRegions(regionTree) called with depth - 1 frames of it on
\* the call stack.  Reading a property of null or undefined raises
\* TypeError; a call the stack has no room for raises RangeError; an error
\* raised inside reduce ends the call.
RECURSIVE countVotesInRegions(_, _, _)
countVotesInRegions(heap, regionTree, depth) ==
    IF depth > MaxStack THEN Raised("RangeError")
    ELSE IF ~IsRegion(regionTree) THEN Returned(0)
    ELSE IF regionTree.t # "object" THEN Raised("TypeError")
    ELSE LET region == heap[regionTree.n]
             ownVotes == OwnVotes(region.votes)
             subs == Subs(region.subRegions)
             RECURSIVE Reduce(_)
             \* subs.reduce((sum, sub) => sum + countVotesInRegions(sub), 0)
             \* over the first i elements
             Reduce(i) ==
                IF i = 0 THEN Returned(0)
                ELSE LET sum == Reduce(i - 1)
                     IN  IF sum.error # "" THEN sum
                         ELSE LET sub == countVotesInRegions(heap, subs[i],
                                                             depth + 1)
                              IN  IF sub.error # "" THEN sub
                                  ELSE Returned(sum.n + sub.n)
             total == Reduce(Len(subs))
         IN  IF total.error # "" THEN total
             ELSE Returned(ownVotes + total.n)

CountVotesCall ==
    /\ rg.phase = "ready"
    /\ rg' = [rg EXCEPT !.phase = "done",
                !.result = countVotesInRegions(rg.heap, rg.regionTree, 1)]
    /\ UNCHANGED <<candidateList, tally, registered, voted, lastCall, ret,
                   callbacks, recorded, tp, vd, host, stack>>

NextRegion == CountVotesCall

SpecRegion == InitRegion /\ [][NextRegion]_vars

\* the addresses the call reaches
Live == Reachable(rg.heap, rg.regionTree)

\* how often address a is an element of a subRegions array the call reaches
Occurrences(a) ==
    LET RECURSIVE Count(_)
        Count(S) ==
            IF S = {} THEN 0
            ELSE LET p == CHOOSE x \in S : TRUE
                     its == rg.heap[p].subRegions.items
                 IN  Cardinality({i \in DOMAIN its : its[i] = Ref(a)})
                     + Count(S \ {p})
    IN  Count(Live)

Acyclic == \A a \in Live : ~OnCycle(rg.heap, a)

\* the structure under regionTree is a finite tree
IsTree ==
    /\ Acyclic
    /\ \A a \in Live : Occurrences(a) = IF Ref(a) = rg.regionTree THEN 0 ELSE 1

RECURSIVE SumVotes(_)
SumVotes(S) ==
    IF S = {} THEN 0
    ELSE LET a == CHOOSE x \in S : TRUE
             v == rg.heap[a].votes
         IN  (IF v.t = "number" THEN v.n ELSE 0) + SumVotes(S \ {a})

\* C9: on a finite region tree countVotesInRegions returns the sum of the
\* votes of the nodes reachable through subRegions; votes that is missing
\* or not a number counts 0, subRegions that is missing or not a sequence
\* is empty, a null or non-record node counts 0.
C9_SumOfTree ==
    (rg.phase = "done" /\ IsTree) => rg.result = Returned(SumVotes(Live))

C9_Witness ==
    /\ rg.phase = "done"
    /\ IsTree
    /\ Live = {1, 2, 3}
    /\ rg.heap[1].subRegions.items = <<Null, Ref(2), Num(7)>>
    /\ rg.heap[2].subRegions.items = <<Null, Ref(3), Num(7)>>
    /\ rg.heap[1].votes = Num(2)
    /\ rg.heap[2].votes = Str("bad")
    /\ rg.heap[3].votes = Num(1)
    /\ rg.heap[3].subRegions.kind = "string"
    /\ rg.result = Returned(3)

\* C10 as claimed: for every input, a structure in which a node is
\* reachable from its own subRegions included, the call returns a number
\* and raises no error.
C10_TotalOnEveryInput == rg.phase = "done" => rg.result.error = ""

\* C10: for every input in which no node is reachable from its own
\* subRegions, malformed nodes included, the call returns a number and
\* raises no error.
C10_TotalOnAcyclic ==
    (rg.phase = "done" /\ Acyclic) => (rg.result.error = "" /\ rg.result.n \in Nat)

C10_Witness ==
    /\ rg.phase = "done"
    /\ Acyclic
    /\ rg.result.error = ""
    /\ Live = {1, 2, 3}
    /\ rg.heap[1].subRegions.items = <<Null, Ref(2), Ref(3), Num(7)>>
    /\ rg.heap[2].votes = Undefined
    /\ rg.heap[3].subRegions.kind = "string"

(***************************************************************************)
(* createVoteValidator(rules), lines 139-159.  The host keeps its rules    *)
(* object and the arrays it owns: vd.arrays[a] is the array at address a,  *)
(* rules.requiredFields is an address, 0 for undefined.  A validator is    *)
(* the closure of validate: the minAge and requiredFields it captured.     *)
(***************************************************************************)
MaxFields == 2

DefaultMinAge == 18

FieldNames == {"id", "age", "toString"}

\* arrays of field names, none twice
FieldLists ==
    UNION {{f \in [1..n -> FieldNames] : \A i, j \in 1..n : f[i] = f[j] => i = j} :
           n \in 0..MaxFields}

MinAgeArgs == {Undefined, Num(21)}

ValidatorSlots == {1, 2}

\* an empty slot of vd.validators
NoValidator == [made |-> FALSE, minAge |-> 0, requiredFields |-> 0]

\* the voters a host validates
VoterObjects ==
    {[val |-> v, props |-> EmptyProps] : v \in {Null, Undefined, Str("abc")}}
    \cup {Obj(EmptyProps),
          Obj([k \in {"id"} |-> Str("x")]),
          Obj([k \in {"age"} |-> Num(17)]),
          Obj([k \in {"age"} |-> Num(25)]),
          Obj([k \in {"id", "age"} |-> IF k = "id" THEN Null ELSE Num(18)]),
          Obj([k \in {"id", "age", "toString"} |->
                 IF k = "id" THEN Str("x")
                 ELSE IF k = "age" THEN Num(21) ELSE Fn("toString")])}
    \cup {Obj([k \in {"id", "age"} |-> IF k = "id" THEN Str("x") ELSE a]) :
            a \in {Num(17), Num(18), Num(20), Num(21), NaN, Str("25")}}

\* const { minAge = 18, requiredFields = [] } = rules: a default replaces
\* undefined; requiredFields is the host's array itself, or (address 0) an
\* empty array of the validator's own
createVoteValidator(rules) ==
    [made |-> TRUE,
     minAge |-> IF rules.minAge = Undefined THEN DefaultMinAge
                ELSE rules.minAge.n,
     requiredFields |-> rules.requiredFields]

\* the elements of the array a validator iterates
FieldsOf(arrays, validator) ==
    IF validator.requiredFields = 0 THEN <<>>
    ELSE arrays[validator.requiredFields]

\* field in voter: an own or an inherited property
HasProperty(props, field) ==
    field \in DOMAIN props \/ field \in ObjectPrototypeKeys

Invalid(reason) == [valid |-> FALSE, hasReason |-> TRUE, reason |-> reason]

Valid == [valid |-> TRUE, hasReason |-> FALSE, reason |-> ""]

\* the index of the first field of fields the voter does not have, 0 if none
FirstMissing(fields, props) ==
    IF \E i \in DOMAIN fields : ~HasProperty(props, fields[i])
    THEN CHOOSE i \in DOMAIN fields :
            /\ ~HasProperty(props, fields[i])
            /\ \A j \in 1..(i - 1) : HasProperty(props, fields[j])
    ELSE 0

\* validate(voter), lines 142-158, of a validator over the host's arrays
validate(validator, arrays, voter) ==
    LET fields == FieldsOf(arrays, validator)
        age == GetProp(voter.props, "age")
    IN  IF ~Truthy(voter.val) \/ Typeof(voter.val) # "object"
        THEN Invalid("Invalid voter object")
        ELSE IF FirstMissing(fields, voter.props) # 0
        THEN Invalid("Missing field: "
                     \o fields[FirstMissing(fields, voter.props)])
        ELSE IF Typeof(age) # "number" \/ LessThan(age, validator.minAge)
        THEN Invalid("Age requirement not met")
        ELSE Valid

InitValidator ==
    /\ candidateList = <<>>
    /\ tally = EmptyProps
    /\ registered = {}
    /\ voted = {}
    /\ lastCall = NoCall
    /\ ret = NoReturn
    /\ callbacks = <<>>
    /\ recorded = [v \in VoterIds |-> 0]
    /\ tp = IdleTp
    /\ rg = IdleRg
    /\ host = IdleHost
    /\ stack = <<>>
    /\ \E minAge \in MinAgeArgs, fields \in FieldLists, passed \in BOOLEAN :
          /\ ~passed => fields = <<>>
          /\ vd = [IdleVd EXCEPT !.phase = "run",
                     !.rules = [minAge |-> minAge,
                                requiredFields |-> IF passed THEN 1 ELSE 0],
                     !.arrays = <<fields, <<"id">> >>,
                     !.validators = [i \in ValidatorSlots |-> NoValidator]]

ValidatorUnchanged ==
    UNCHANGED <<candidateList, tally, registered, voted, lastCall, ret,
                callbacks, recorded, tp, rg, host, stack>>

\* validators[i] = createVoteValidator(rules)
CreateValidator ==
    /\ \E i \in ValidatorSlots :
          /\ ~vd.validators[i].made
          /\ vd' = [vd EXCEPT !.validators[i] = createVoteValidator(vd.rules),
                              !.last = NoValidation]
    /\ ValidatorUnchanged

\* validators[i](voter)
Validate ==
    /\ \E i \in ValidatorSlots, voter \in VoterObjects :
          /\ vd.validators[i].made
          /\ vd' = [vd EXCEPT !.last =
                      [validator |-> i, voter |-> voter,
                       result |-> validate(vd.validators[i], vd.arrays, voter)]]
    /\ ValidatorUnchanged

\* the host writes rules.minAge
HostSetsMinAge ==
    /\ \E minAge \in MinAgeArgs :
          /\ minAge # vd.rules.minAge
          /\ vd' = [vd EXCEPT !.rules.minAge = minAge, !.last = NoValidation]
    /\ ValidatorUnchanged

\* the host pushes onto, or pops from, the array it passed as requiredFields
HostWritesFields ==
    /\ \/ \E f \in FieldNames :
             /\ Len(vd.arrays[1]) < MaxFields
             /\ \A i \in DOMAIN vd.arrays[1] : vd.arrays[1][i] # f
             /\ vd' = [vd EXCEPT !.arrays[1] = Append(@, f),
                                 !.last = NoValidation]
       \/ /\ vd.arrays[1] # <<>>
          /\ vd' = [vd EXCEPT !.arrays[1] = SubSeq(@, 1, Len(@) - 1),
                              !.last = NoValidation]
    /\ ValidatorUnchanged

\* the host assigns rules.requiredFields: another array, or undefined
HostReplacesFields ==
    /\ \E a \in {0, 1, 2} :
          /\ a # vd.rules.requiredFields
          /\ vd' = [vd EXCEPT !.rules.requiredFields = a,
                              !.last = NoValidation]
    /\ ValidatorUnchanged

NextValidator ==
    \/ CreateValidator
    \/ Validate
    \/ HostSetsMinAge
    \/ HostWritesFields
    \/ HostReplacesFields

SpecValidator == InitValidator /\ [][NextValidator]_vars

\* the validation last made: its validator, its voter, the fields the
\* validator iterated
LastValidator == vd.validators[vd.last.validator]
LastFields == FieldsOf(vd.arrays, LastValidator)
LastIsObject ==
    vd.last.voter.val \notin {Null, Undefined}
    /\ Typeof(vd.last.voter.val) = "object"

\* the indexes of the required fields that are no own property of the voter
NotOwn(fields, props) == {i \in DOMAIN fields : fields[i] \notin DOMAIN props}

Min(S) == CHOOSE x \in S : \A y \in S : x <= y

\* C11: a validator checks in fixed precedence: a null or non-object voter
\* gives "Invalid voter object"; else the first required field, in list
\* order, that is missing (no own property of the voter) gives "Missing
\* field: <field>", also with a bad age; else an age that is no number or
\* is below minAge (default 18) gives "Age requirement not met"; else
\* {valid: true} without a reason; an age equal to minAge is valid.
C11_Precedence ==
    vd.last.validator # 0 =>
        LET props == vd.last.voter.props
            age == IF "age" \in DOMAIN props THEN props["age"] ELSE Undefined
            missing == NotOwn(LastFields, props)
        IN  vd.last.result =
              IF ~LastIsObject
              THEN [valid |-> FALSE, hasReason |-> TRUE,
                    reason |-> "Invalid voter object"]
              ELSE IF missing # {}
              THEN [valid |-> FALSE, hasReason |-> TRUE,
                    reason |-> "Missing field: " \o LastFields[Min(missing)]]
              ELSE IF age.t # "number" /\ age.t # "nan"
              THEN [valid |-> FALSE, hasReason |-> TRUE,
                    reason |-> "Age requirement not met"]
              ELSE IF age.t = "number" /\ age.n < LastValidator.minAge
              THEN [valid |-> FALSE, hasReason |-> TRUE,
                    reason |-> "Age requirement not met"]
              ELSE [valid |-> TRUE, hasReason |-> FALSE, reason |-> ""]

\* C12: a required field is present only as an own property of the voter:
\* for a voter object and a required field it has no own property for (a
\* name it only inherits, such as "toString", included) the validator
\* returns "Missing field: <field>" for the first such field; an own
\* property with a falsy or null value is present.
C12_OwnProperty ==
    (vd.last.validator # 0 /\ LastIsObject) =>
        LET props == vd.last.voter.props
            missing == NotOwn(LastFields, props)
        IN  IF missing # {}
            THEN /\ ~vd.last.result.valid
                 /\ vd.last.result.reason
                      = "Missing field: " \o LastFields[Min(missing)]
            ELSE vd.last.result.reason \in {"", "Age requirement not met"}

\* C13: the rules of a validator are fixed when createVoteValidator
\* returns: whatever the host then writes to the rules object or to the
\* requiredFields array it passed, and whatever other validator is
\* created, every validator returns for every voter what it returned
\* before.
C13_RulesFixedAtCreation ==
    [][ \A i \in ValidatorSlots : vd.validators[i].made =>
          \A voter \in VoterObjects :
              validate(vd'.validators[i], vd'.arrays, voter)
                = validate(vd.validators[i], vd.arrays, voter) ]_vars

(***************************************************************************)
(* castVote with an onSuccess that calls back into the session, lines      *)
(* 110-114.  stack holds the castVote calls whose onSuccess is running,    *)
(* the innermost last; the session is that of the example of lines 57-64.  *)
(***************************************************************************)
ExampleCandidates ==
    << [id |-> "C1", name |-> "Sarpanch Ram", party |-> "Janata"],
       [id |-> "C2", name |-> "Pradhan Sita", party |-> "Lok"] >>

\* the voters the callbacks and the host register
ExampleVoters ==
    [kind : {"object"}, id : {Str(v) : v \in VoterIds}, age : {Num(17), Num(25)}]

InitReentrant ==
    /\ candidateList = ExampleCandidates
    /\ tally = InitialTally(candidateList)
    /\ registered = {}
    /\ voted = {}
    /\ lastCall = NoCall
    /\ ret = NoReturn
    /\ callbacks = <<>>
    /\ recorded = [v \in VoterIds |-> 0]
    /\ tp = IdleTp
    /\ rg = IdleRg
    /\ vd = IdleVd
    /\ host = IdleHost
    /\ stack = <<>>

VotedWhenOnSuccessRunsLate(vt, voterId) == vt

\* voted when onSuccess is invoked: voted.add(voterId) of line 112 has run
VotedWhenOnSuccessRuns(vt, voterId) == vt \cup {voterId}

\* castVote up to the invocation of its callback: an error branch and a
\* success without onSuccess return at once; with onSuccess the vote is
\* recorded and the callback starts running
CastVoteReentrant ==
    \E voterId \in VoterIds,
       candidateId \in CandidateIds \cup {UnknownCandidateId},
       cb \in CallbackArgs :
        LET err == CastVoteError(registered, voted, candidateList, voterId,
                                 candidateId)
            call == IF err = "" THEN OnSuccessCall(voterId, candidateId)
                    ELSE OnErrorCall(err)
            supplied == IF err = "" THEN cb.onSuccess ELSE cb.onError
            runs == err = "" /\ cb.onSuccess
        IN  /\ lastCall' = [NoCall EXCEPT !.op = "castVote",
                              !.voterId = voterId,
                              !.candidateId = candidateId,
                              !.onSuccess = cb.onSuccess,
                              !.onError = cb.onError]
            /\ tally' = TallyAfter(tally, candidateId, err)
            /\ voted' = IF runs THEN VotedWhenOnSuccessRuns(voted, voterId)
                        ELSE VotedAfter(voted, voterId, err)
            /\ recorded' = IF err = ""
                           THEN [recorded EXCEPT ![voterId] = @ + 1]
                           ELSE recorded
            /\ callbacks' = IF supplied THEN <<call>> ELSE <<>>
            /\ IF runs
               THEN /\ stack' = Append(stack, [voterId |-> voterId,
                                               candidateId |-> candidateId])
                    /\ ret' = NoReturn
               ELSE /\ stack' = stack
                    /\ ret' = OptionalCall(supplied, call)
            /\ UNCHANGED <<candidateList, registered, tp, rg, vd, host>>

\* the castVote call of the innermost running onSuccess
InnermostCall ==
    [NoCall EXCEPT !.op = "castVote",
       !.voterId = stack[Len(stack)].voterId,
       !.candidateId = stack[Len(stack)].candidateId,
       !.onSuccess = TRUE, !.onError = TRUE]

\* the innermost onSuccess returns and castVote returns its value (line 114)
OnSuccessReturns ==
    /\ stack # <<>>
    /\ stack' = SubSeq(stack, 1, Len(stack) - 1)
    /\ lastCall' = InnermostCall
    /\ callbacks' = <<OnSuccessCall(InnermostCall.voterId,
                                    InnermostCall.candidateId)>>
    /\ ret' = OptionalCall(TRUE, callbacks'[1])
    /\ UNCHANGED <<candidateList, tally, registered, voted, recorded, tp, rg,
                   vd, host>>

\* the innermost onSuccess throws: castVote has no try, the error leaves it
\* and nothing of lines 111-112 is undone
OnSuccessThrows ==
    /\ stack # <<>>
    /\ stack' = SubSeq(stack, 1, Len(stack) - 1)
    /\ lastCall' = InnermostCall
    /\ callbacks' = <<OnSuccessCall(InnermostCall.voterId,
                                    InnermostCall.candidateId)>>
    /\ ret' = [NoReturn EXCEPT !.kind = "throw", !.val = Str("Error")]
    /\ UNCHANGED <<candidateList, tally, registered, voted, recorded, tp, rg,
                   vd, host>>

\* the calls are made by the host or, while stack is not empty, by the
\* innermost running onSuccess
NextReentrant ==
    \/ \E voter \in ExampleVoters : RegisterVoterCall(voter)
    \/ CastVoteReentrant
    \/ GetResults
    \/ GetWinner
    \/ OnSuccessReturns
    \/ OnSuccessThrows

SpecReentrant == InitReentrant /\ [][NextReentrant]_vars

\* the row of a candidate id in the rows getResults returns
RowsOf(rows, id) == {r \in DOMAIN rows : rows[r].id = id}

\* C17: on the success path the tally increment and the insertion into
\* voted happen before onSuccess is invoked: when onSuccess starts, the
\* voter is in voted and getResults, whatever the comparator, shows one
\* vote more for the candidate; a castVote for a voter who has voted, made
\* from inside onSuccess or later, invokes onError("Already voted") and
\* records nothing; when onSuccess returns or throws, tally and voted stay
\* as they are; and every voter whose onSuccess is running is in voted.
C17_RecordedBeforeOnSuccess ==
    /\ [](\A i \in DOMAIN stack :
            stack[i].voterId \in voted /\ recorded[stack[i].voterId] = 1)
    /\ [][ /\ Len(stack') = Len(stack) + 1 =>
                LET f == stack'[Len(stack')]
                    before == getResults(candidateList, tally, "undefined")
                IN  /\ f.voterId \in voted'
                    /\ \A sortFn \in SortFnArgs :
                         LET rows == getResults(candidateList', tally', sortFn)
                         IN  \A r \in RowsOf(rows, f.candidateId) :
                               \A b \in RowsOf(before, f.candidateId) :
                                 rows[r].votes = Num(before[b].votes.n + 1)
           /\ (/\ Len(stack') = Len(stack)
               /\ lastCall'.op = "castVote"
               /\ lastCall'.voterId \in voted) =>
                /\ callbacks' = Invoked(OnErrorCall("Already voted"), lastCall')
                /\ tally' = tally
                /\ voted' = voted
           /\ Len(stack') = Len(stack) - 1 =>
                /\ tally' = tally
                /\ voted' = voted
                /\ stack[Len(stack)].voterId \in voted'
         ]_vars

\* a castVote from inside the onSuccess of V1, for V1 again, has invoked
\* onError("Already voted")
C17_Witness ==
    /\ stack = <<[voterId |-> "V1", candidateId |-> "C1"]>>
    /\ lastCall.op = "castVote"
    /\ lastCall.voterId = "V1"
    /\ lastCall.candidateId = "C2"
    /\ callbacks = <<OnErrorCall("Already voted")>>
    /\ tally["C1"] = Num(1)
    /\ tally["C2"] = Num(0)

(***************************************************************************)
(* A host that keeps the array it passed to createElection (line 67) and   *)
(* the arrays and rows getResults and getWinner returned (lines 117-135),  *)
(* and writes to them.                                                     *)
(***************************************************************************)
MaxHostWrites == 2

\* the arrays a host creates the session with
HostCandidateArrays == {<<>>, ExampleCandidates}

\* the candidates a host writes into its array afterwards
HostCandidates ==
    {ExampleCandidates[2],
     [id |-> "constructor", name |-> "Mukhiya", party |-> "Gram"]}

candidateListArrayShared == "candidates"

\* const candidateList = [...candidates]: the array the session reads is a
\* new array, not the array candidates
candidateListArray == "candidateList"

returnedArrayStored == "candidateList"

\* return [...results].sort(comparator), results = candidateList.map(...):
\* the array returned is a new array of new objects
returnedArray == "sorted"

InitHost ==
    /\ candidateList \in HostCandidateArrays
    /\ tally = InitialTally(candidateList)
    /\ registered = {}
    /\ voted = {}
    /\ lastCall = NoCall
    /\ ret = NoReturn
    /\ callbacks = <<>>
    /\ recorded = [v \in VoterIds |-> 0]
    /\ tp = IdleTp
    /\ rg = IdleRg
    /\ vd = IdleVd
    /\ host = [IdleHost EXCEPT !.candidates = candidateList,
                               !.original = candidateList]
    /\ stack = <<>>

Reverse(seq) == [i \in 1..Len(seq) |-> seq[Len(seq) + 1 - i]]

\* an array after one write of the host: push, pop, or an element replaced
ArrayWrites(arr) ==
    ({Append(arr, c) : c \in HostCandidates}
     \cup {SubSeq(arr, 1, Len(arr) - 1) : n \in {1} \cap DOMAIN arr}
     \cup {[arr EXCEPT ![i] = c] : i \in DOMAIN arr, c \in HostCandidates})
    \ {arr}

\* a returned array (kind "rows") or row (kind "row") after one write of
\* the host: a field of the first row assigned, pop, reverse
RowWrites(rows, kind) ==
    ({[rows EXCEPT ![1].votes = Num(99)],
      [rows EXCEPT ![1].id = UnknownCandidateId]}
     \cup (IF kind = "rows"
           THEN {SubSeq(rows, 1, Len(rows) - 1), Reverse(rows)}
           ELSE {}))
    \ {rows}

\* the host writes to the array it passed to createElection
HostWritesCandidates ==
    /\ host.arrayWrites + host.rowWrites < MaxHostWrites
    /\ \E new \in ArrayWrites(host.candidates) :
          /\ host' = [host EXCEPT !.candidates = new, !.arrayWrites = @ + 1]
          /\ candidateList' = IF candidateListArray = "candidates" THEN new
                              ELSE candidateList
    /\ lastCall' = NoCall
    /\ callbacks' = <<>>
    /\ UNCHANGED <<tally, registered, voted, ret, recorded, tp, rg, vd, stack>>

\* the host writes to the array or row the last call returned
HostWritesRows ==
    /\ host.arrayWrites + host.rowWrites < MaxHostWrites
    /\ ret.kind \in {"rows", "row"}
    /\ ret.rows # <<>>
    /\ \E new \in RowWrites(ret.rows, ret.kind) :
          /\ ret' = [ret EXCEPT !.rows = new]
          /\ candidateList' =
                IF returnedArray = "candidateList" /\ ret.kind = "rows"
                THEN [i \in DOMAIN new |->
                        [id |-> new[i].id, name |-> new[i].name,
                         party |-> new[i].party]]
                ELSE candidateList
    /\ host' = [host EXCEPT !.rowWrites = @ + 1]
    /\ lastCall' = NoCall
    /\ callbacks' = <<>>
    /\ UNCHANGED <<tally, registered, voted, recorded, tp, rg, vd, stack>>

NextHost ==
    \/ \E voter \in ExampleVoters : RegisterVoterCall(voter)
    \/ CastVote
    \/ GetResults
    \/ GetWinner
    \/ HostWritesCandidates
    \/ HostWritesRows

SpecHost == InitHost /\ [][NextHost]_vars

\* the candidate ids of the array the session was created with
OriginalIds == {host.original[i].id : i \in DOMAIN host.original}

\* C19: the candidate list of a session is fixed at creation: a write of
\* the host to the array it passed (an element added, removed or replaced)
\* changes neither the candidate ids castVote accepts nor the rows
\* getResults (with any comparator) and getWinner return; after any such
\* writes castVote records the vote of a registered voter who has not voted
\* exactly for the ids the array had at creation, and getResults returns
\* one row for each candidate the array had at creation.
C19_CandidateListFixed ==
    [][ /\ host'.candidates # host.candidates =>
             /\ \A id \in CandidateIds \cup {UnknownCandidateId} :
                   CandidateExists(candidateList', id)
                     <=> CandidateExists(candidateList, id)
             /\ \A sortFn \in SortFnArgs :
                   getResults(candidateList', tally', sortFn)
                     = getResults(candidateList, tally, sortFn)
             /\ getWinner(candidateList', tally')
                  = getWinner(candidateList, tally)
        /\ (/\ lastCall'.op = "castVote"
            /\ lastCall'.voterId \in registered \ voted) =>
             (voted' # voted <=> lastCall'.candidateId \in OriginalIds)
        /\ lastCall'.op = "getResults" =>
             /\ Len(ret'.rows) = Len(host.original)
             /\ \A i \in DOMAIN host.original :
                  \E r \in DOMAIN ret'.rows :
                     /\ ret'.rows[r].id = host.original[i].id
                     /\ ret'.rows[r].name = host.original[i].name
                     /\ ret'.rows[r].party = host.original[i].party
      ]_vars

\* after the host has removed "C2" from its array, a vote for "C2" is
\* recorded
C19_Witness ==
    /\ host.arrayWrites = 1
    /\ host.candidates = <<ExampleCandidates[1]>>
    /\ lastCall.op = "castVote"
    /\ lastCall.candidateId = "C2"
    /\ callbacks = <<OnSuccessCall("V1", "C2")>>
    /\ tally["C2"] = Num(1)

\* C20: getResults, with or without a comparator, and getWinner are
\* read-only: a call leaves tally, registered, voted and the order of the
\* candidate list as they are and returns rows built from the tally as it
\* is now, whatever the host wrote to rows returned before; and a write of
\* the host to a returned array or row leaves tally, registered, voted and
\* the candidate list as they are and changes nothing of what getResults
\* and getWinner return.
C20_ReadOnlyFreshRows ==
    [][ /\ lastCall'.op \in {"getResults", "getWinner"} =>
             /\ tally' = tally
             /\ registered' = registered
             /\ voted' = voted
             /\ candidateList' = candidateList
             /\ lastCall'.op = "getResults" =>
                  /\ Len(ret'.rows) = Len(candidateList)
                  /\ \A i \in DOMAIN candidateList :
                        \E r \in DOMAIN ret'.rows : ret'.rows[r] = RowAt(i)
             /\ lastCall'.op = "getWinner" =>
                  \/ ret'.rows = <<>>
                  \/ \E i \in DOMAIN candidateList : ret'.rows = <<RowAt(i)>>
        /\ host'.rowWrites # host.rowWrites =>
             /\ tally' = tally
             /\ registered' = registered
             /\ voted' = voted
             /\ candidateList' = candidateList
             /\ \A sortFn \in SortFnArgs :
                   getResults(candidateList', tally', sortFn)
                     = getResults(candidateList, tally, sortFn)
             /\ getWinner(candidateList', tally')
                  = getWinner(candidateList, tally)
      ]_vars

\* after the host wrote to a returned array or row, getResults returns the
\* rows of the tally
C20_Witness ==
    /\ host.rowWrites >= 1
    /\ lastCall.op = "getResults"
    /\ lastCall.sortFn = "undefined"
    /\ ret.rows = << [id |-> "C1", name |-> "Sarpanch Ram",
                      party |-> "Janata", votes |-> Num(1)],
                     [id |-> "C2", name |-> "Pradhan Sita",
                      party |-> "Lok", votes |-> Num(0)] >>

====
